---- MODULE Spec2Model ----
(***************************************************************************)
(* Model of stochastic.continuous.spatial_point_process.SpatialPointProcess *)
(* (src/stochastic/continuous/spatial_point_process.py): the validated     *)
(* density / density_kwargs properties and the thinning (rejection)        *)
(* sampler, one action per step of sample and                              *)
(* _sample_spatial_point_process.                                           *)
(*                                                                         *)
(* Abstractions.  Floats are integers: a coordinate drawn by               *)
(* np.random.uniform(low, high) is an integer of low..high-1, a threshold  *)
(* drawn by np.random.uniform() is u/UDen with u in 0..UDen-1, and         *)
(* U < density/lmax is decided exactly on these rationals (RatioLess).     *)
(* An ndarray is a record [ndim, rows]; a Python value is a record         *)
(* [kind, name, shape, data, keys] carrying its Python type in kind.       *)
(* scipy.optimize.minimize is a choice of any point of the closed box      *)
(* whose density is at least the density at the start point.               *)
(* The while loop is followed for at most MaxBlocks iterations (the code   *)
(* has no such limit).  The print calls of sample are left out.  Weights   *)
(* and density values are nonnegative.  The callable densities are the two *)
(* functions fSum and fZero given below as Python text: both work row by   *)
(* row on a block of candidates (one value per candidate), as line 96      *)
(* requires of a density, and both return numpy floats.                    *)
(***************************************************************************)
EXTENDS Integers, Sequences, FiniteSets, TLC

\* ------------------------------------------------------------------ bounds
MaxN == 2
MaxBlocksize == 2
MaxBlocks == 2
UDen == 2

\* ------------------------------------------------------------- Python values
PyVal(kind, name, shape, data, keys) ==
    [kind |-> kind, name |-> name, shape |-> shape, data |-> data, keys |-> keys]

\* The callable densities:
\*   fSum  = lambda x, a=1: a * 1.0 * np.sum(x, axis=-1)
\*   fZero = lambda x, a=1: a * 0.0 * np.sum(x, axis=-1)
\* For a point x (1-D) the value is one numpy float, for a blocksize x d
\* matrix it is the vector of the values of its rows.
fSum == PyVal("function", "fSum", <<>>, <<>>, <<>>)
fZero == PyVal("function", "fZero", <<>>, <<>>, <<>>)
\* Weight arrays (row-major data).
arr1d == PyVal("ndarray", "arr1d", <<2>>, <<1, 0>>, <<>>)
arr2d == PyVal("ndarray", "arr2d", <<2, 2>>, <<2, 1, 0, 1>>, <<>>)
arrZero == PyVal("ndarray", "arrZero", <<2, 2>>, <<0, 0, 0, 0>>, <<>>)
list1d == PyVal("list", "list1d", <<2>>, <<1, 0>>, <<>>)
\* Values that are neither callable nor list / tuple / ndarray.
intVal == PyVal("int", "5", <<>>, <<>>, <<>>)
noneVal == PyVal("NoneType", "None", <<>>, <<>>, <<>>)
\* dicts: keys[i] maps to data[i].
emptyDict == PyVal("dict", "{}", <<>>, <<>>, <<>>)
aDict == PyVal("dict", "{'a': 2}", <<>>, <<2>>, <<"a">>)

DensityInputs == {fSum, fZero, arr1d, arr2d, arrZero, list1d, intVal, noneVal, aDict}
KwargsInputs == {emptyDict, aDict, list1d, noneVal, intVal}

\* n: <<>> is None, <<k>> is the integer k.
NInputs == {<<>>} \cup {<<k>> : k \in 1..MaxN}
\* bounds: <<>> is the default (), otherwise one (low, high) pair per dimension.
BoundsInputs == {<<>>, << <<0, 2>> >>, << <<0, 2>>, <<0, 2>> >>}
AlgoInputs == {"thinning", "other"}
BlocksizeInputs == 1..MaxBlocksize

\* ------------------------------------------------------------ Python helpers
callable(value) == value.kind = "function"

isinstance(value, kinds) == value.kind \in kinds

RECURSIVE Sum(_)
Sum(s) == IF s = <<>> THEN 0 ELSE Head(s) + Sum(Tail(s))

RECURSIVE Amax(_)
Amax(s) == IF Len(s) = 1 THEN s[1]
           ELSE LET m == Amax(Tail(s)) IN IF Head(s) >= m THEN Head(s) ELSE m

VARIABLES
    constructed,      \* __init__ has completed
    density,          \* self._density
    density_kwargs,   \* self._density_kwargs
    raised,           \* the exception of the last construction / assignment, or "none"
    pc,               \* position in sample / _sample_spatial_point_process
    n, bounds, algo, blocksize,  \* the arguments of the call in progress
    lmax,             \* local lmax
    Thinned,          \* local Thinned (ndarray)
    Unthinned,        \* local Unthinned (ndarray), NoArray when unbound
    U,                \* local U
    blocks,           \* number of iterations of the while loop started so far
    outcome,          \* "running", "returned", "None", or the exception raised
    result,           \* the returned matrix: a sequence of rows
    calls,            \* the invocations of self.density made by the call
    acceptLog         \* history: every candidate that passed U < Criteria, in order

vars == <<constructed, density, density_kwargs, raised, pc, n, bounds, algo, blocksize,
          lmax, Thinned, Unthinned, U, blocks, outcome, result, calls, acceptLog>>

unset == PyVal("unset", "unset", <<>>, <<>>, <<>>)

\* ------------------------------------------------------------------ ndarrays
NoArray == [ndim |-> 0, rows |-> <<>>]

\* np.array([]): one dimension, no element.
EmptyArray == [ndim |-> 1, rows |-> << <<>> >>]

\* len(a): the length of the first axis.
len(a) == IF a.ndim = 1 THEN Len(a.rows[1]) ELSE Len(a.rows)

\* a.T: the transpose of a 2-D array; a 1-D array is its own transpose.
Transpose(a) ==
    IF a.ndim = 1 THEN a
    ELSE [ndim |-> 2,
          rows |-> [j \in 1..Len(a.rows[1]) |-> [i \in 1..Len(a.rows) |-> a.rows[i][j]]]]

\* np.vstack((a, row)) for a 1-D or 2-D a and a 1-D row.
vstack(a, row) == [ndim |-> 2, rows |-> Append(a.rows, row)]

\* np.hstack((a, b)) for two 2-D arrays with the same number of rows.
hstack(a, b) == [ndim |-> 2, rows |-> [i \in 1..Len(a.rows) |-> a.rows[i] \o b.rows[i]]]

RECURSIVE Masked(_, _)
Masked(row, mask) ==
    IF row = <<>> THEN <<>>
    ELSE (IF Head(mask) THEN <<Head(row)>> ELSE <<>>) \o Masked(Tail(row), Tail(mask))

\* a[:, mask]: the columns of a 2-D array selected by a boolean mask, in order.
SelectColumns(a, mask) == [ndim |-> 2, rows |-> [i \in 1..Len(a.rows) |-> Masked(a.rows[i], mask)]]

\* a[:, :k]: the first k columns of a 2-D array.
FirstColumns(a, k) ==
    [ndim |-> 2,
     rows |-> [i \in 1..Len(a.rows) |->
                 SubSeq(a.rows[i], 1, IF k < Len(a.rows[i]) THEN k ELSE Len(a.rows[i]))]]

\* ------------------------------------------------------------- the density
\* The factor w of the callable f = lambda x, a=1: a * w * np.sum(x, axis=-1).
Weight(f) == IF f.name = "fSum" THEN 1 ELSE 0

\* f(x, a) for a point x (a 1-D array): a * w * np.sum(x, axis=-1).
Apply(f, x, a) == a * Weight(f) * Sum(x)

\* f(X, a) for a matrix X of one candidate per row: np.sum(X, axis=-1) sums
\* each row, so the call returns one value per candidate.
ApplyRows(f, X, a) == [j \in 1..Len(X) |-> Apply(f, X[j], a)]

\* row-major position of the index tuple p in an array of this shape
RECURSIVE FlatIndex(_, _, _)
FlatIndex(shape, p, acc) ==
    IF shape = <<>> THEN acc
    ELSE FlatIndex(Tail(shape), Tail(p), acc * Head(shape) + Head(p))

\* weights[tuple(point)]
Item(weights, point) == weights.data[FlatIndex(weights.shape, point, 0) + 1]

\* One invocation of self.density: the positional arguments beyond the first,
\* the keys passed as keyword arguments, and whether an exception it raised
\* was suppressed by the caller.
Call(phase, nargs, kw, discarded) ==
    [phase |-> phase, nargs |-> nargs, kw |-> kw, discarded |-> discarded]

\* f(*bounds, **kw) for f = lambda x, a=1: a * w * np.sum(x, axis=-1) raises
\* TypeError when x is missing (no bound pair), when a is given both by
\* position and by keyword, when a is bound to the second pair (a tuple
\* times the float w), or when there are more than two positional arguments.
\* With one bound pair x is that pair and the call returns.
ProbeRaises(nargs, kw) == nargs = 0 \/ nargs >= 2

RatioLessOrEqual(u, value, lm) ==
    IF lm > 0 THEN u * lm <= value * UDen
    ELSE IF lm < 0 THEN u * lm >= value * UDen
    ELSE value >= 0

\* U < value / lmax for U = u / UDen, in numpy's float arithmetic:
\* value / 0 is inf for value > 0, nan for value = 0, -inf for value < 0.
RatioLess(u, value, lm) ==
    IF lm > 0 THEN u * lm < value * UDen
    ELSE IF lm < 0 THEN u * lm > value * UDen
    ELSE value > 0

\* ----------------------------------------------------------------- the object
AnyDensity(value) == TRUE

ValidDensity(value) ==
    ~ ((~ callable(value)) /\ (~ isinstance(value, {"list", "tuple", "ndarray"})))

ValidKwargs(value) == isinstance(value, {"dict"})

NoCall ==
    /\ pc = "idle"
    /\ UNCHANGED <<pc, n, bounds, algo, blocksize, lmax, Thinned, Unthinned, U, blocks,
                   outcome, result, calls, acceptLog>>

\* SpatialPointProcess(value, kwargs): the two setters in turn.
Construct(value, kwargs) ==
    /\ ~ constructed
    /\ NoCall
    /\ IF ~ ValidDensity(value)
       THEN /\ raised' = "ValueError"
            /\ UNCHANGED <<constructed, density, density_kwargs>>
       ELSE /\ density' = value
            /\ IF ~ ValidKwargs(kwargs)
               THEN /\ raised' = "ValueError"
                    /\ UNCHANGED <<constructed, density_kwargs>>
               ELSE /\ density_kwargs' = kwargs
                    /\ constructed' = TRUE
                    /\ raised' = "none"

\* self.density = value
SetDensity(value) ==
    /\ constructed
    /\ NoCall
    /\ UNCHANGED <<constructed, density_kwargs>>
    /\ IF ~ ValidDensity(value)
       THEN /\ raised' = "ValueError"
            /\ UNCHANGED density
       ELSE /\ density' = value
            /\ raised' = "none"

\* self.density_kwargs = value
SetDensityKwargs(value) ==
    /\ constructed
    /\ NoCall
    /\ UNCHANGED <<constructed, density>>
    /\ IF ~ ValidKwargs(value)
       THEN /\ raised' = "ValueError"
            /\ UNCHANGED density_kwargs
       ELSE /\ density_kwargs' = value
            /\ raised' = "none"
\* ------------------------------------------------------------------- sample
\* x0 = [np.mean(i) for i in bounds]
Midpoint(bs) == [i \in 1..Len(bs) |-> (bs[i][1] + bs[i][2]) \div 2]

\* The points scipy.optimize.minimize may return for -density from x0 within
\* the bounds: any point of the closed box where the density is not below
\* the density at x0.  The optimiser calls density(x) with no keyword.
Maximisers(f, bs) ==
    {x \in [1..Len(bs) -> UNION {bs[i][1]..bs[i][2] : i \in 1..Len(bs)}] :
        /\ \A i \in 1..Len(bs) : bs[i][1] <= x[i] /\ x[i] <= bs[i][2]
        /\ Apply(f, x, 1) >= Apply(f, Midpoint(bs), 1)}

\* density(max.x, *keys) for f = lambda x, a=1: a * w * np.sum(x, axis=-1):
\* with one key a is that key, a str, and a * w (str times float) raises
\* TypeError; with more keys the surplus positional argument raises TypeError.
StarKeysFail(keys) == Len(keys) > 0

\* sample(n, bounds, algo, blocksize), lines 121-128: the probe call
\* self.density(*bounds, **self.density_kwargs) inside try / except: pass.
sample(n_, bounds_, algo_, blocksize_) ==
    /\ constructed
    /\ pc = "idle"
    /\ n' = n_ /\ bounds' = bounds_ /\ algo' = algo_ /\ blocksize' = blocksize_
    /\ calls' = IF callable(density)
                THEN {Call("probe", Len(bounds_), density_kwargs.keys,
                           ProbeRaises(Len(bounds_), density_kwargs.keys))}
                ELSE {}
    /\ pc' = "enter"
    /\ outcome' = "running"
    /\ result' = <<>>
    /\ UNCHANGED <<constructed, density, density_kwargs, raised, lmax, Thinned, Unthinned,
                   U, blocks, acceptLog>>

\* The guards of lines 67-68.
ArgumentsSupplied == (n # <<>>) /\ (bounds # <<>>)

\* _sample_spatial_point_process, lines 66-78: the two guards, lmax, Thinned.
Enter ==
    /\ pc = "enter"
    /\ UNCHANGED <<constructed, density, density_kwargs, raised, n, bounds, algo, blocksize,
                   Unthinned, U, blocks, result, acceptLog>>
    /\ IF ArgumentsSupplied /\ algo = "thinning"
       THEN IF callable(density)
            THEN \E x \in Maximisers(density, bounds) :
                   /\ calls' = calls \cup {Call("optimize", 1, <<>>, FALSE),
                                           Call("lmax", 1 + Len(density_kwargs.keys), <<>>, FALSE)}
                   /\ IF StarKeysFail(density_kwargs.keys)
                      THEN /\ outcome' = "TypeError"
                           /\ pc' = "done"
                           /\ UNCHANGED <<lmax, Thinned>>
                      ELSE /\ lmax' = Apply(density, x, 1)
                           /\ Thinned' = EmptyArray
                           /\ pc' = "loop"
                           /\ UNCHANGED outcome
            ELSE /\ lmax' = Amax(density.data)
                 /\ Thinned' = EmptyArray
                 /\ pc' = "loop"
                 /\ UNCHANGED <<outcome, calls>>
       ELSE \* no branch is taken: the function falls off its end
            /\ outcome' = "None"
            /\ pc' = "done"
            /\ UNCHANGED <<lmax, Thinned, calls>>

\* while len(Thinned.T) < n
LoopCondition == len(Transpose(Thinned)) < n[1]

\* Lines 80-91: one row of blocksize draws per dimension, stacked.
RECURSIVE Stack(_)
Stack(draws) ==
    IF Len(draws) = 1 THEN [ndim |-> 1, rows |-> draws]
    ELSE vstack(Stack(SubSeq(draws, 1, Len(draws) - 1)), draws[Len(draws)])

\* CandidateRanges[i] is the set the i-th coordinate is drawn from.
CandidateRanges ==
    IF callable(density)
    THEN [i \in 1..Len(bounds) |-> bounds[i][1]..(bounds[i][2] - 1)]
    ELSE [i \in 1..Len(density.shape) |-> 0..(density.shape[i] - 1)]

Coordinates == UNION {CandidateRanges[i] : i \in 1..Len(CandidateRanges)}

\* Lines 79-94: the loop test, the candidate block and the thresholds.
GenerateBlock ==
    /\ pc = "loop"
    /\ LoopCondition
    /\ blocks < MaxBlocks
    /\ blocks' = blocks + 1
    /\ UNCHANGED <<constructed, density, density_kwargs, raised, n, bounds, algo, blocksize,
                   lmax, Thinned, result, calls, acceptLog>>
    /\ IF (~ callable(density)) /\ density.kind # "ndarray"
       THEN \* self.density.shape: a list or tuple has no attribute shape
            /\ outcome' = "AttributeError"
            /\ pc' = "done"
            /\ UNCHANGED <<Unthinned, U>>
       ELSE \E draws \in [1..Len(CandidateRanges) -> [1..blocksize -> Coordinates]] :
              /\ \A i \in 1..Len(CandidateRanges) : \A j \in 1..blocksize :
                    draws[i][j] \in CandidateRanges[i]
              /\ Unthinned' = Stack(draws)
              /\ IF Len(draws) = 1
                 THEN \* Unthinned.T = ...: attribute T of ndarray is not writable
                      /\ outcome' = "AttributeError"
                      /\ pc' = "done"
                      /\ UNCHANGED U
                 ELSE /\ U' \in [1..blocksize -> 0..(UDen - 1)]
                      /\ pc' = "criteria"
                      /\ UNCHANGED outcome

\* Lines 95-101: Criteria[j] = density value of candidate j (to be divided by lmax).
CandidateValues(block) ==
    LET points == Transpose(block).rows IN
    IF callable(density)
    THEN ApplyRows(density, points, 1)   \* one call, self.density(Unthinned.T)
    ELSE [j \in 1..Len(points) |-> Item(density, points[j])]

\* U < Criteria
AcceptMask(u, values, lm) == [j \in 1..Len(u) |-> RatioLess(u[j], values[j], lm)]

AccumulateInFront(thinned, accepted) ==
    IF len(thinned) = 0 THEN accepted ELSE hstack(accepted, thinned)

\* Lines 102-105.
Accumulate(thinned, accepted) ==
    IF len(thinned) = 0 THEN accepted ELSE hstack(thinned, accepted)

\* Lines 95-106: the acceptance test of one block.
AcceptBlock ==
    /\ pc = "criteria"
    /\ LET mask == AcceptMask(U, CandidateValues(Unthinned), lmax)
           accepted == SelectColumns(Unthinned, mask)
       IN /\ Thinned' = Accumulate(Thinned, accepted)
          /\ acceptLog' = acceptLog \o Transpose(accepted).rows
    /\ calls' = IF callable(density) THEN calls \cup {Call("block", 1, <<>>, FALSE)} ELSE calls
    /\ Unthinned' = NoArray   \* del Unthinned
    /\ U' = <<>>              \* U is not read again before line 94 rebinds it
    /\ pc' = "loop"
    /\ UNCHANGED <<constructed, density, density_kwargs, raised, n, bounds, algo, blocksize,
                   lmax, blocks, outcome, result>>

\* Lines 107-108: Thinned[:, :n].T
Truncate(thinned, k) == Transpose(FirstColumns(thinned, k)).rows

Return ==
    /\ pc = "loop"
    /\ ~ LoopCondition
    /\ result' = Truncate(Thinned, n[1])
    /\ outcome' = "returned"
    /\ pc' = "done"
    /\ UNCHANGED <<constructed, density, density_kwargs, raised, n, bounds, algo, blocksize,
                   lmax, Thinned, Unthinned, U, blocks, calls, acceptLog>>

\* The call is over: its locals are gone, the object remains.
Finish ==
    /\ pc = "done"
    /\ pc' = "idle"
    /\ n' = <<>> /\ bounds' = <<>> /\ algo' = "thinning" /\ blocksize' = 1
    /\ lmax' = 0 /\ Thinned' = NoArray /\ Unthinned' = NoArray /\ U' = <<>>
    /\ blocks' = 0 /\ outcome' = "none" /\ result' = <<>> /\ calls' = {}
    /\ acceptLog' = <<>>
    /\ UNCHANGED <<constructed, density, density_kwargs, raised>>

Init ==
    /\ constructed = FALSE
    /\ density = unset
    /\ density_kwargs = unset
    /\ raised = "none"
    /\ pc = "idle"
    /\ n = <<>> /\ bounds = <<>> /\ algo = "thinning" /\ blocksize = 1
    /\ lmax = 0 /\ Thinned = NoArray /\ Unthinned = NoArray /\ U = <<>>
    /\ blocks = 0 /\ outcome = "none" /\ result = <<>> /\ calls = {}
    /\ acceptLog = <<>>

Next ==
    \/ \E value \in DensityInputs, kwargs \in KwargsInputs : Construct(value, kwargs)
    \/ \E value \in DensityInputs : SetDensity(value)
    \/ \E value \in KwargsInputs : SetDensityKwargs(value)
    \/ \E n_ \in NInputs, bounds_ \in BoundsInputs, algo_ \in AlgoInputs,
          blocksize_ \in BlocksizeInputs : sample(n_, bounds_, algo_, blocksize_)
    \/ Enter
    \/ GenerateBlock
    \/ AcceptBlock
    \/ Return
    \/ Finish

Spec == Init /\ [][Next]_vars
\* ================================================================== claims
\* The dimensionality of the call in progress: the number of bound pairs for a
\* callable density, the rank of the weight array otherwise.
CallDim == IF callable(density) THEN Len(bounds) ELSE Len(density.shape)

\* A call of sample with every argument as the interface asks for it: a
\* callable or an ndarray with a positive entry, n and bounds supplied, the
\* thinning algorithm, no density keyword.
ValidCall ==
    /\ n # <<>> /\ bounds # <<>> /\ algo = "thinning"
    /\ density_kwargs = emptyDict
    /\ \/ density = fSum
       \/ /\ density.kind = "ndarray"
          /\ \E i \in 1..Len(density.data) : density.data[i] > 0

InRange(row) ==
    \A i \in 1..Len(row) :
        IF callable(density)
        THEN bounds[i][1] <= row[i] /\ row[i] <= bounds[i][2]
        ELSE 0 <= row[i] /\ row[i] < density.shape[i]

\* C1: a valid call of sample that ends returns a matrix of exactly n rows and
\* d columns, every row within the bounds or the array's index ranges
\* (d = 1 included).
C1_ReturnsNByD ==
    (pc = "done" /\ ValidCall) =>
        /\ outcome = "returned"
        /\ Len(result) = n[1]
        /\ \A r \in 1..Len(result) : Len(result[r]) = CallDim /\ InRange(result[r])

\* C2: the rows returned are the first n accepted candidates, in the order in
\* which they were accepted (earlier blocks first, generation order within a
\* block), the surplus discarded.
C2_FirstNInAcceptanceOrder ==
    outcome = "returned" =>
        /\ Len(acceptLog) >= n[1]
        /\ result = SubSeq(acceptLog, 1, n[1])

C2_Witness ==
    /\ outcome = "returned"
    /\ blocks >= 2
    /\ n[1] >= 2
    /\ Len(acceptLog) > n[1]
    /\ result[1] # result[2]

\* The candidates of a block whose threshold u/UDen is strictly below value/lm.
RECURSIVE StrictlyBelow(_, _, _, _)
StrictlyBelow(points, u, values, lm) ==
    IF points = <<>> THEN <<>>
    ELSE (IF lm > 0 /\ Head(u) * lm < Head(values) * UDen THEN <<Head(points)>> ELSE <<>>)
         \o StrictlyBelow(Tail(points), Tail(u), Tail(values), lm)

Columns(a) == IF a.ndim = 2 THEN Transpose(a).rows ELSE <<>>

ValueAt(point) == IF callable(density) THEN Apply(density, point, 1) ELSE Item(density, point)

\* C3: the acceptance test of a block appends exactly the candidates whose
\* threshold is strictly less than density/lmax, so no accepted or returned
\* point has a zero density or weight.
C3_AcceptedIffBelowRatio ==
    /\ [](\A i \in 1..Len(result) : ValueAt(result[i]) > 0)
    /\ [](Thinned.ndim = 2 => \A j \in 1..Len(Columns(Thinned)) : ValueAt(Columns(Thinned)[j]) > 0)
    /\ [][pc = "criteria" =>
            Columns(Thinned') =
                Columns(Thinned) \o
                StrictlyBelow(Columns(Unthinned), U,
                              [j \in 1..Len(U) |-> ValueAt(Columns(Unthinned)[j])], lmax)]_vars

C3_Witness ==
    /\ outcome = "returned"
    /\ density = arr2d
    /\ blocksize = 1
    /\ blocks = 2
    /\ Len(acceptLog) = 1

\* C4: with lmax <= 0 the call fails with DegenerateDensity before any
\* candidate block is generated.
C4_DegenerateDensityBeforeLoop ==
    (pc \in {"loop", "criteria"} /\ lmax <= 0) => blocks = 0

\* A maximum number of blocks below the cap of the model.
BlockBudget == MaxBlocks - 1

\* C5: a call never generates more blocks than the budget: once the budget is
\* used up without n accepted points it fails with SamplingBudgetExceeded
\* instead of generating a further block.
C5_BudgetEnforced == blocks <= BlockBudget

\* C6: a call without n or without bounds ends with MissingArguments.
C6_MissingArgumentsRaised ==
    (pc = "done" /\ (n = <<>> \/ bounds = <<>>)) => outcome = "MissingArguments"

\* C7: a call with n and bounds but an algo other than 'thinning' ends with
\* UnsupportedAlgorithm.
C7_UnsupportedAlgorithmRaised ==
    (pc = "done" /\ n # <<>> /\ bounds # <<>> /\ algo # "thinning")
        => outcome = "UnsupportedAlgorithm"

\* C8: the density is invoked only for lmax and for candidate blocks, and no
\* exception of a density invocation is discarded.
C8_NoProbeNoDiscardedError ==
    \A c \in calls : c.phase \in {"optimize", "lmax", "block"} /\ ~ c.discarded

\* C9: the stored density is callable or array-like and the stored kwargs a
\* mapping, and a failed assignment changes neither.
C9_StoredValuesValid ==
    /\ [](constructed =>
            /\ density.kind \in {"function", "list", "tuple", "ndarray"}
            /\ density_kwargs.kind = "dict")
    /\ [][(constructed /\ raised' = "ValueError" /\ pc = "idle" /\ pc' = "idle")
            => UNCHANGED <<density, density_kwargs>>]_vars

C9_Witness ==
    /\ constructed
    /\ raised = "ValueError"
    /\ density = arr2d
    /\ density_kwargs = aDict

\* C10: every invocation of the density made for lmax or for a candidate
\* block passes density_kwargs as keyword arguments.
C10_KwargsPassedToEveryCall ==
    \A c \in calls :
        c.phase \in {"optimize", "lmax", "block"} =>
            (c.kw = density_kwargs.keys /\ c.nargs = 1)
====
